---- MODULE Spec2Model ----
(***************************************************************************)
(* A model of the agentic-rag query pipeline: the document builder         *)
(* (data_loader.py), the intent classifier and the three-stage retrieval   *)
(* (rag_system.py), the search gateway (meilisearch_client.py) and the     *)
(* response assembly of AgenticRAGSystem.query.                            *)
(*                                                                         *)
(* Python str values are TLA+ strings; money amounts are integers counted  *)
(* in hundredths of the currency unit, so that the ":.2f" conversions are  *)
(* computed and not assumed.                                               *)
(***************************************************************************)
EXTENDS Integers, Sequences, FiniteSets, TLC

VARIABLES
    index,                  \* the documents held by the search engine's index
    pc,                     \* position of the running query() call
    user_query,             \* query(): user_query
    max_results,            \* _smart_search(): max_results
    filters,                \* _smart_search(): filters (NoFilter models None)
    results,                \* _smart_search(): the local dict `results`
    matching_categories,    \* _smart_search(): list of categories to search
    catIdx,                 \* position of the stage-2 loop in matching_categories
    all_category_results,   \* _smart_search(): hits accumulated by stage 2
    terms,                  \* _smart_search(): relevant_terms + query_words
    termIdx,                \* position of the stage-3 loop in terms
    search_results,         \* query(): what _smart_search returned
    search_time,            \* query(): search_time
    is_personal_context,    \* query(): is_personal_context
    messages,               \* query(): the prompt handed to the LLM
    response,               \* query(): the dict returned to the caller
    lastCall,               \* history: the last request sent to the gateway
    raised,                 \* history: a gateway call of this query raised
    stage1Resp,             \* history: the response to the stage-1 search
    allSeen,                \* history: ids of all gateway batches, first seen first
    keptSeen,               \* history: as allSeen, over the batches the result is built from
    llmCalls,               \* history: generate_response calls of this query
    retrieveCalls,          \* history: _smart_search calls of this query
    lastHits,               \* history: number of hits of the last gateway response
    console,                \* interactive loop: the text it printed last
    cterms,                 \* classifier run: the terms the query is made up of
    cpc,                    \* classifier run: "input" or "classified"
    clabel,                 \* classifier run: result of _detect_personal_context
    brow,                   \* builder run: the input record
    bdoc,                   \* builder run: the document built from it
    bpc,                    \* builder run: "row" or "built"
    spc,                    \* setup_index(): position
    failedSteps,            \* setup_index(): the steps whose external call failed
    setupResult,            \* setup_index(): "True", "False", "raised" once it ended
    setupRuns,              \* number of setup_index() calls started
    indexAfter,             \* the index as each call that returned True left it
    documents,              \* add_documents(): number of documents handed in
    sent,                   \* add_documents(): the batches sent to the engine, in order
    wait_time,              \* add_documents(): wait_time
    polls,                  \* add_documents(): get_index_stats calls made
    indexing,               \* the engine is still indexing what it was sent
    stats,                  \* add_documents(): what the last poll answered
    upc                     \* add_documents(): position

vars == << index, pc, user_query, max_results, filters, results,
           matching_categories, catIdx, all_category_results, terms, termIdx,
           search_results, search_time, is_personal_context, messages,
           response, lastCall, raised, stage1Resp, allSeen, keptSeen,
           llmCalls, retrieveCalls, lastHits, console, cterms, cpc, clabel,
           brow, bdoc, bpc, spc, failedSteps, setupResult, setupRuns,
           indexAfter,
           documents, sent, wait_time, polls, indexing, stats, upc >>

pipelineVars == << index, pc, user_query, max_results, filters, results,
           matching_categories, catIdx, all_category_results, terms, termIdx,
           search_results, search_time, is_personal_context, messages,
           response, lastCall, raised, stage1Resp, allSeen, keptSeen,
           llmCalls, retrieveCalls, lastHits, console >>

queryVars == << pc, user_query, max_results, filters, results,
           matching_categories, catIdx, all_category_results, terms, termIdx,
           search_results, search_time, is_personal_context, messages,
           response, lastCall, raised, stage1Resp, allSeen, keptSeen,
           llmCalls, retrieveCalls, lastHits, console >>

classifierVars == << cterms, cpc, clabel >>

builderVars == << brow, bdoc, bpc >>

setupVars == << spc, failedSteps, setupResult, setupRuns, indexAfter >>

uploadVars == << documents, sent, wait_time, polls, indexing, stats, upc >>

\* what a step of a running query leaves alone
offlineVars == << classifierVars, builderVars, setupVars, uploadVars >>

----------------------------------------------------------------------------
(* Bounds of the model *)

\* largest max_results a caller passes to query()
MaxResults == 2
\* longest query of the classifier runs, in vocabulary terms
MaxWords == 2
\* the time a measured phase (the search, the LLM call) takes, in clock ticks
Elapsed == 1
\* largest processingTimeMs the engine reports
MaxMs == 1
\* how far around each bucket boundary (in hundredths for amounts and profits,
\* in units for quantities) the records of the builder runs reach
Window == 2
\* how many times the program is started against the same engine
MaxSetups == 2
\* the largest number of documents handed to add_documents
MaxDocs == 201
\* the max_results of the runs that ask for as many hits as the index holds
WideResults == 3

----------------------------------------------------------------------------
(* Python string operations *)

None == "<None>"

Min(a, b) == IF a < b THEN a ELSE b

Abs(n) == IF n < 0 THEN -n ELSE n

\* `k in s` for two str values
Contains(s, k) ==
    \E i \in 1..(Len(s) - Len(k) + 1) : SubSeq(s, i, i + Len(k) - 1) = k

UpperCase == "ABCDEFGHIJKLMNOPQRSTUVWXYZ"
LowerCase == "abcdefghijklmnopqrstuvwxyz"

LowerChar(c) ==
    IF \E i \in 1..26 : SubSeq(UpperCase, i, i) = c
    THEN LET i == CHOOSE j \in 1..26 : SubSeq(UpperCase, j, j) = c
         IN  SubSeq(LowerCase, i, i)
    ELSE c

UpperChar(c) ==
    IF \E i \in 1..26 : SubSeq(LowerCase, i, i) = c
    THEN LET i == CHOOSE j \in 1..26 : SubSeq(LowerCase, j, j) = c
         IN  SubSeq(UpperCase, i, i)
    ELSE c

\* str.lower()
RECURSIVE Lower(_)
Lower(s) ==
    IF Len(s) = 0 THEN ""
    ELSE LowerChar(SubSeq(s, 1, 1)) \o Lower(SubSeq(s, 2, Len(s)))

\* str.title() of a single word: first letter upper case, the rest lower case
Title(s) ==
    IF Len(s) = 0 THEN ""
    ELSE UpperChar(SubSeq(s, 1, 1)) \o Lower(SubSeq(s, 2, Len(s)))

\* str.split(): the maximal runs of non-blank characters, in order
RECURSIVE SplitFrom(_, _, _)
SplitFrom(s, i, word) ==
    IF i > Len(s)
    THEN IF Len(word) = 0 THEN << >> ELSE << word >>
    ELSE IF SubSeq(s, i, i) = " "
         THEN (IF Len(word) = 0 THEN << >> ELSE << word >>) \o SplitFrom(s, i + 1, "")
         ELSE SplitFrom(s, i + 1, word \o SubSeq(s, i, i))

Split(s) == SplitFrom(s, 1, "")

\* " ".join(words)
RECURSIVE Join(_)
Join(words) ==
    IF words = << >> THEN ""
    ELSE IF Len(words) = 1 THEN words[1]
    ELSE words[1] \o " " \o Join(Tail(words))

\* f"{x:.2f}" for x = c / 100
Fmt2(c) ==
    (IF c < 0 THEN "-" ELSE "") \o ToString(Abs(c) \div 100) \o "."
        \o (IF Abs(c) % 100 < 10 THEN "0" ELSE "") \o ToString(Abs(c) % 100)

\* [hit.get('id') for hit in seq]
Ids(seq) == [i \in 1..Len(seq) |-> seq[i].id]

\* dict.get(key, default) on a document
Get(d, key, default) == IF key \in DOMAIN d THEN d[key] ELSE default

\* A search result dict: `keys` are the keys the dict holds; the field of a
\* key it does not hold has no meaning.
Dict(keys, hits, total, ms) ==
    [keys |-> keys, hits |-> hits, estimatedTotalHits |-> total,
     processingTimeMs |-> ms]

EmptyDict == Dict({}, << >>, 0, 0)

\* key in d
Has(d, key) == key \in d.keys

\* d.get(key, default)
GetKey(d, key, default) == IF Has(d, key) THEN d[key] ELSE default

\* d[key] = value
Put(d, key, value) == [d EXCEPT ![key] = value, !.keys = @ \cup {key}]

----------------------------------------------------------------------------
(* Document builder: data_loader.py *)

\* The rows of the input file (Amount and Profit in hundredths).
Rows == <<
    [OrderID |-> "B-1", Amount |-> 5000, Profit |-> -500, Quantity |-> 1,
     Category |-> "Furniture", SubCategory |-> "Chairs"],
    [OrderID |-> "B-2", Amount |-> 60000, Profit |-> 12050, Quantity |-> 7,
     Category |-> "Electronics", SubCategory |-> "Phones"],
    [OrderID |-> "B-3", Amount |-> 15000, Profit |-> 0, Quantity |-> 3,
     Category |-> "Clothing", SubCategory |-> "Saree"] >>

get_consumer_price_description(amount) ==
    IF amount < 100 * 100 THEN "affordable"
    ELSE IF amount < 500 * 100 THEN "mid-range"
    ELSE "premium"

get_consumer_quality_description(amount) ==
    IF amount < 100 * 100 THEN "good value"
    ELSE IF amount < 500 * 100 THEN "high quality"
    ELSE "luxury"

get_consumer_availability_description(quantity) ==
    IF quantity <= 2 THEN "Limited stock available"
    ELSE IF quantity <= 5 THEN "Moderate availability"
    ELSE "Good stock availability"

\* buckets whose lower boundary belongs to the bucket below
get_amount_range_Inclusive(amount) ==
    IF amount <= 100 * 100 THEN "low"
    ELSE IF amount <= 500 * 100 THEN "medium"
    ELSE "high"

get_amount_range(amount) ==
    IF amount < 100 * 100 THEN "low"
    ELSE IF amount < 500 * 100 THEN "medium"
    ELSE "high"

get_profit_range(profit) ==
    IF profit < 0 THEN "loss"
    ELSE IF profit < 50 * 100 THEN "low_profit"
    ELSE "high_profit"

get_quantity_range(quantity) ==
    IF quantity <= 2 THEN "small"
    ELSE IF quantity <= 5 THEN "medium"
    ELSE "large"

get_profit_description(profit) ==
    IF profit > 0 THEN "positive profitability"
    ELSE IF profit < 0 THEN "negative profitability"
    ELSE "break-even"

\* a consumer text that also states the profit
create_consumer_friendly_content_WithProfit(row) ==
    "Product: " \o row.SubCategory \o " from " \o row.Category
        \o " category. Price: $" \o Fmt2(row.Amount)
        \o ", Profit: $" \o Fmt2(row.Profit)
        \o ", Quantity available: " \o ToString(row.Quantity) \o "."

create_consumer_friendly_content(row) ==
    "Product: " \o row.SubCategory \o " from " \o row.Category
        \o " category. Price: $" \o Fmt2(row.Amount)
        \o ", Quantity available: " \o ToString(row.Quantity)
        \o ". This is a " \o get_consumer_price_description(row.Amount)
        \o " item with " \o get_consumer_quality_description(row.Amount)
        \o " quality. " \o get_consumer_availability_description(row.Quantity)
        \o "."

create_business_content(row) ==
    "Product: " \o row.SubCategory \o " from " \o row.Category
        \o " category. Price: $" \o Fmt2(row.Amount)
        \o ", Profit: $" \o Fmt2(row.Profit)
        \o ", Quantity available: " \o ToString(row.Quantity)
        \o ". This is a " \o get_amount_range(row.Amount)
        \o "-priced item with " \o get_profit_description(row.Profit) \o "."

\* lines 46-59: the document process_data builds for a row with pandas index i
BuildRow(row, i) ==
    [id               |-> "order_" \o ToString(i),
     order_id         |-> row.OrderID,
     amount           |-> row.Amount,
     profit           |-> row.Profit,
     quantity         |-> row.Quantity,
     category         |-> row.Category,
     sub_category     |-> row.SubCategory,
     content          |-> create_consumer_friendly_content(row),
     business_content |-> create_business_content(row),
     amount_range     |-> get_amount_range(row.Amount),
     profit_range     |-> get_profit_range(row.Profit),
     quantity_range   |-> get_quantity_range(row.Quantity)]

\* the document process_data builds for the row at position i (pandas index i - 1)
BuildDocument(i) == BuildRow(Rows[i], i - 1)

process_data == [i \in 1..Len(Rows) |-> BuildDocument(i)]

----------------------------------------------------------------------------
(* Intent classifier: AgenticRAGSystem._detect_personal_context *)

personal_keywords == <<
    "shopping", "buy", "buying", "purchase", "purchasing",
    "gift", "gifts", "present", "presents", "souvenir", "souvenirs",
    "vacation", "travel", "trip", "holiday", "goa", "beach",
    "personal", "family", "friends", "myself", "me",
    "recommend", "recommendation", "suggest", "suggestion",
    "what to buy", "what should i buy", "what can i take",
    "need", "want", "looking for", "searching for" >>

business_keywords == <<
    "business", "profit", "profitability", "revenue", "loss",
    "margin", "margins", "analysis", "analytics", "performance",
    "inventory", "stock", "quarterly", "annual", "strategy",
    "management", "optimization", "efficiency", "roi",
    "highest", "best", "top", "most profitable", "profit margins",
    "financial", "commercial", "enterprise", "corporate" >>

\* sum(1 for keyword in keywords if keyword in query_lower)
RECURSIVE Matches(_, _)
Matches(keywords, query_lower) ==
    IF keywords = << >> THEN 0
    ELSE (IF Contains(query_lower, Head(keywords)) THEN 1 ELSE 0)
             + Matches(Tail(keywords), query_lower)

\* the decision with >= in place of >: a tie goes to BUSINESS
PersonalDecision_TieToBusiness(personal_matches, business_matches) ==
    ~ (business_matches >= personal_matches /\ business_matches > 0)

\* the decision of lines 156-159; TRUE is the personal context
PersonalDecision(personal_matches, business_matches) ==
    ~ (business_matches > personal_matches /\ business_matches > 0)

detect_personal_context(query) ==
    LET query_lower == Lower(query) IN
    PersonalDecision(Matches(personal_keywords, query_lower),
                     Matches(business_keywords, query_lower))

ContextLabel(personal) == IF personal THEN "PERSONAL" ELSE "BUSINESS"

----------------------------------------------------------------------------
(* Search gateway: MeilisearchClient.search and the engine behind it *)

NoFilter == None

\* configure_search_settings: update_filterable_attributes
FilterableAttributes ==
    {"category", "sub_category", "amount_range", "profit_range", "quantity_range"}

\* the engine's filter expression  attribute = 'value'
FilterSat(doc, f) ==
    \/ f = NoFilter
    \/ \E a \in FilterableAttributes : f = a \o " = '" \o doc[a] \o "'"

\* the sequences without repetition of at most n elements of S
InjectiveSeqs(S, n) ==
    UNION { { h \in [1..k -> S] : \A i, j \in 1..k : h[i] = h[j] => i = j } :
            k \in 0..Min(n, Cardinality(S)) }

\* What index.search(query, opt_params) may answer: documents of the index
\* that satisfy the filter, each at most once (the index is keyed by id), at
\* most `limit` of them (no limit when `if limit:` is false), in any
\* relevance order; with the engine's statistics (the number of documents
\* that match and a processing time), or without them, or with no hits key.
SearchResponses(limit, f) ==
    LET cands == { d \in index : FilterSat(d, f) }
        cap   == IF limit = 0 THEN Cardinality(cands) ELSE limit
        lists == InjectiveSeqs(cands, cap)
    IN  { Dict({ "hits", "estimatedTotalHits", "processingTimeMs" },
                 h, Cardinality(cands), t) : h \in lists, t \in 0..MaxMs }
        \cup { Dict({ "hits" }, h, 0, 0) : h \in lists }
        \cup { EmptyDict }

----------------------------------------------------------------------------
(* Retrieval: AgenticRAGSystem._smart_search *)

\* Config.MAX_SEARCH_RESULTS
MAX_SEARCH_RESULTS == 5

category_mapping == <<
    [category |-> "clothing",
     keywords |-> << "clothing", "clothes", "dress", "shirt", "trousers", "saree",
                     "stole", "kurti", "hankerchief", "t-shirt", "shirt", "gift",
                     "family", "personal" >>],
    [category |-> "furniture",
     keywords |-> << "furniture", "chair", "chairs", "bookcase", "bookcases",
                     "table", "desk", "home office", "office", "home" >>],
    [category |-> "electronics",
     keywords |-> << "electronics", "electronic", "phone", "phones", "printer",
                     "printers", "game", "games", "affordable electronics",
                     "tech", "gadget" >>] >>

relevant_terms == << "clothing", "furniture", "electronics", "phone", "chair",
                     "saree", "stole", "affordable", "gift", "office" >>

\* any(keyword in query_lower for keyword in keywords)
AnyKeyword(keywords, query_lower) ==
    \E i \in 1..Len(keywords) : Contains(query_lower, keywords[i])

\* the categories to search, the last of the mapping first
MatchingCategories_Reversed(query_lower) ==
    LET Triggered(e) == AnyKeyword(e.keywords, query_lower)
        matching == SelectSeq(category_mapping, Triggered)
    IN  IF matching = << >>
        THEN << "electronics", "furniture", "clothing" >>
        ELSE [i \in 1..Len(matching) |-> matching[Len(matching) + 1 - i].category]

\* lines 49-57: the categories to search, in mapping order
MatchingCategories(query_lower) ==
    LET Triggered(e) == AnyKeyword(e.keywords, query_lower)
        matching == SelectSeq(category_mapping, Triggered)
    IN  IF matching = << >>
        THEN << "clothing", "furniture", "electronics" >>
        ELSE [i \in 1..Len(matching) |-> matching[i].category]

\* a stage-2 search that forgets its filter
CategoryFilter_Missing(category) == NoFilter

\* line 63
CategoryFilter(category) == "category = '" \o Title(category) \o "'"

\* line 93
QueryWords(query_lower) ==
    LET Long(word) == Len(word) > 2 IN SelectSeq(Split(query_lower), Long)

\* r.get('hits', [])
Hits(r) == GetKey(r, "hits", << >>)

\* the test with <= in place of <
Insufficient_OffByOne(r, mr) == Hits(r) = << >> \/ Len(r.hits) <= mr

\* lines 40 and 90: not results.get('hits') or len(results['hits']) < max_results
Insufficient(r, mr) == Hits(r) = << >> \/ Len(r.hits) < mr

\* lines 75-82: the loop building unique_results, with its break
RECURSIVE UniqueLoop(_, _, _, _)
UniqueLoop(rest, unique, seen_ids, mr) ==
    IF rest = << >> THEN unique
    ELSE LET hit == Head(rest) IN
         IF hit.id \notin seen_ids
         THEN IF Len(unique) + 1 >= mr
              THEN Append(unique, hit)
              ELSE UniqueLoop(Tail(rest), Append(unique, hit), seen_ids \cup {hit.id}, mr)
         ELSE UniqueLoop(Tail(rest), unique, seen_ids, mr)

\* the loop without its break
unique_results_NoBreak(all_results, mr) ==
    UniqueLoop(all_results, << >>, {}, Len(all_results) + 1)

unique_results(all_results, mr) == UniqueLoop(all_results, << >>, {}, mr)

\* the merge without the test on existing_ids
RECURSIVE MergeLoop_NoIdTest(_, _, _, _)
MergeLoop_NoIdTest(rest, hits, existing_ids, mr) ==
    IF rest = << >> THEN hits
    ELSE IF Len(hits) < mr
         THEN MergeLoop_NoIdTest(Tail(rest), Append(hits, Head(rest)), existing_ids, mr)
         ELSE MergeLoop_NoIdTest(Tail(rest), hits, existing_ids, mr)

\* lines 105-108: existing_ids is computed once, before the loop
RECURSIVE MergeLoop(_, _, _, _)
MergeLoop(rest, hits, existing_ids, mr) ==
    IF rest = << >> THEN hits
    ELSE IF Head(rest).id \notin existing_ids /\ Len(hits) < mr
         THEN MergeLoop(Tail(rest), Append(hits, Head(rest)), existing_ids, mr)
         ELSE MergeLoop(Tail(rest), hits, existing_ids, mr)

\* a stage 3 that takes the hits of the term in place of the hits held
MergeTerm_Replace(r, term_results, mr) ==
    IF Hits(term_results) = << >> THEN r ELSE term_results

\* lines 101-108: what `results` is after one stage-3 response
MergeTerm(r, term_results, mr) ==
    IF Hits(term_results) = << >> THEN r
    ELSE IF Hits(r) = << >> THEN term_results
    ELSE Put(r, "hits",
             MergeLoop(term_results.hits, r.hits,
                       { r.hits[i].id : i \in 1..Len(r.hits) }, mr))

\* a stage 2 that puts its list in place of the hits even when it is empty
ReplaceHits_Always(r, unique) == Put(r, "hits", unique)

\* lines 84-85: stage 2 replaces the hits when it found any
ReplaceHits(r, unique) == IF unique # << >> THEN Put(r, "hits", unique) ELSE r

\* post-processing that only repairs the hits key
PostProcess_HitsOnly(r) == IF Hits(r) = << >> THEN Put(r, "hits", << >>) ELSE r

\* lines 112-117
PostProcess(r) ==
    LET r1 == IF Hits(r) = << >> THEN Put(r, "hits", << >>) ELSE r
        r2 == IF ~ Has(r1, "estimatedTotalHits")
              THEN Put(r1, "estimatedTotalHits", Len(r1.hits)) ELSE r1
    IN  IF ~ Has(r2, "processingTimeMs")
        THEN Put(r2, "processingTimeMs", 0) ELSE r2

\* lines 124-128
EmptyResult == Dict({ "hits", "estimatedTotalHits", "processingTimeMs" }, << >>, 0, 0)

\* a handler that hands back what was collected before the failure
SmartSearchExcept_Partial(r) == PostProcess(r)

\* lines 122-128: what the except clause returns, `r` being the locals' results
SmartSearchExcept(r) == EmptyResult

\* the request the running _smart_search sends next
CurrentRequest ==
    CASE pc = "stage1" ->
           [stage |-> "stage1", query |-> user_query, limit |-> max_results,
            filter |-> filters, held |-> 0]
      [] pc = "stage2" ->
           [stage |-> "stage2", query |-> user_query, limit |-> max_results * 2,
            filter |-> CategoryFilter(matching_categories[catIdx]), held |-> 0]
      [] pc = "stage2retry" ->
           [stage |-> "stage2retry", query |-> matching_categories[catIdx],
            limit |-> max_results,
            filter |-> CategoryFilter(matching_categories[catIdx]), held |-> 0]
      [] pc = "stage3" ->
           [stage |-> "stage3", query |-> terms[termIdx],
            limit |-> max_results - Len(Hits(results)), filter |-> NoFilter,
            held |-> Len(Hits(results))]

NoCall == [stage |-> "none", query |-> "", limit |-> 0, filter |-> NoFilter, held |-> 0]

\* ids in order of first appearance
RECURSIVE FirstSeen(_)
FirstSeen(ids) ==
    IF ids = << >> THEN << >>
    ELSE LET init == FirstSeen(SubSeq(ids, 1, Len(ids) - 1))
             last == ids[Len(ids)]
         IN  IF \E i \in 1..Len(init) : init[i] = last THEN init ELSE Append(init, last)

----------------------------------------------------------------------------
(* Prompt assembly and response: OpenRouterClient.create_rag_prompt, query *)

E_COMMERCE_SYSTEM_PROMPT ==
    "You are an intelligent e-commerce assistant that automatically adapts to user context."

\* RAG_USER_PROMPT_TEMPLATE.format(context_text=..., query=...)
RAG_USER_PROMPT(context_text, query) ==
    "Product Data:\n" \o context_text \o "\n\nUser Question: " \o query
        \o "\n\nCONTEXT DETECTION INSTRUCTIONS:"

\* lines 84-87 of openrouter_client.py, lines 243-246 of rag_system.py
SelectContent(doc, personal) ==
    IF personal THEN Get(doc, "content", "")
    ELSE Get(doc, "business_content", Get(doc, "content", ""))

RECURSIVE ContextText(_, _, _)
ContextText(context, i, personal) ==
    IF i > Len(context) THEN ""
    ELSE ToString(i) \o ". " \o SelectContent(context[i], personal) \o "\n"
             \o ContextText(context, i + 1, personal)

\* a prompt that lists the consumer content whatever the label
create_rag_prompt_ConsumerOnly(query, context, personal) ==
    << [role |-> "system", content |-> E_COMMERCE_SYSTEM_PROMPT],
       [role |-> "user",
        content |-> RAG_USER_PROMPT(ContextText(context, 1, TRUE), query)] >>

\* lines 72-106 of openrouter_client.py, called with the label of query()
create_rag_prompt(query, context, personal) ==
    << [role |-> "system", content |-> E_COMMERCE_SYSTEM_PROMPT],
       [role |-> "user",
        content |-> RAG_USER_PROMPT(ContextText(context, 1, personal), query)] >>

\* lines 248-256
ProfitData(doc, personal) ==
    IF ~ personal /\ "profit" \in DOMAIN doc
    THEN IF doc.profit > 0 THEN "+$" \o Fmt2(doc.profit)
         ELSE IF doc.profit < 0 THEN "-$" \o Fmt2(Abs(doc.profit))
         ELSE "$0.00"
    ELSE None

\* lines 258-265
Source(doc, personal) ==
    [order_id     |-> Get(doc, "order_id", None),
     category     |-> Get(doc, "category", None),
     sub_category |-> Get(doc, "sub_category", None),
     amount       |-> Get(doc, "amount", None),
     profit       |-> ProfitData(doc, personal),
     content      |-> SelectContent(doc, personal)]

NO_RESULTS_ANSWER ==
    "I couldn't find any relevant data to answer your question. Please try rephrasing your query."

\* a test that never takes the no-results exit
NoHits_Never(found) == FALSE

\* line 208: not search_results['hits']
NoHits(found) == found.hits = << >>

\* lines 210-222
NoResultsResponse(query, t_search) ==
    [query        |-> query,
     answer       |-> NO_RESULTS_ANSWER,
     context      |-> << >>,
     search_time  |-> t_search,
     llm_time     |-> 0,
     total_time   |-> t_search,
     sources      |-> << >>,
     search_stats |-> [total_hits |-> 0, processing_time_ms |-> 0]]

\* lines 267-280
QueryResponse(query, found, personal, answer, t_search, t_llm) ==
    [query            |-> query,
     answer           |-> answer,
     context          |-> found.hits,
     context_detected |-> ContextLabel(personal),
     search_time      |-> t_search,
     llm_time         |-> t_llm,
     total_time       |-> t_search + t_llm,
     sources          |-> [i \in 1..Len(found.hits) |-> Source(found.hits[i], personal)],
     search_stats     |-> [total_hits |-> GetKey(found, "estimatedTotalHits", 0),
                           processing_time_ms |-> GetKey(found, "processingTimeMs", 0)]]

----------------------------------------------------------------------------
(* The state machine *)

\* the queries, result counts, filters and LLM answers of the bounded runs
Queries == { "", "chair", "Profit margins", "Gift for me" }
Filters == { NoFilter, "category = 'Electronics'" }
Answers == { "answer" }

\* no query running
QueryIdle ==
    /\ pc = "idle"
    /\ user_query = ""
    /\ max_results = 0
    /\ filters = NoFilter
    /\ results = EmptyDict
    /\ matching_categories = << >>
    /\ catIdx = 0
    /\ all_category_results = << >>
    /\ terms = << >>
    /\ termIdx = 0
    /\ search_results = None
    /\ search_time = 0
    /\ is_personal_context = TRUE
    /\ messages = << >>
    /\ response = None
    /\ lastCall = NoCall
    /\ raised = FALSE
    /\ stage1Resp = EmptyDict
    /\ allSeen = << >>
    /\ keptSeen = << >>
    /\ llmCalls = 0
    /\ retrieveCalls = 0
    /\ lastHits = 0
    /\ console = ""

\* the pipeline after AgenticRAGSystem.__init__: no index built, no query running
PipelineInit ==
    /\ index = {}
    /\ QueryIdle

\* no classifier run
ClassifierIdle ==
    /\ cterms = << >>
    /\ cpc = "unused"
    /\ clabel = TRUE

\* no builder run
BuilderIdle ==
    /\ brow = None
    /\ bdoc = None
    /\ bpc = "unused"

\* no setup_index() call
SetupIdle ==
    /\ spc = "unused"
    /\ failedSteps = {}
    /\ setupResult = None
    /\ setupRuns = 0
    /\ indexAfter = << >>

\* no add_documents() call
UploadIdle ==
    /\ documents = 0
    /\ sent = << >>
    /\ wait_time = 0
    /\ polls = 0
    /\ indexing = FALSE
    /\ stats = None
    /\ upc = "unused"

Init ==
    /\ PipelineInit
    /\ ClassifierIdle
    /\ BuilderIdle
    /\ SetupIdle
    /\ UploadIdle

\* line 204: max_results or Config.MAX_SEARCH_RESULTS
ResultCount(mr) == IF mr = 0 THEN MAX_SEARCH_RESULTS ELSE mr

\* setup_index: the index is dropped and rebuilt from the input file
SetupIndex ==
    /\ pc = "idle"
    /\ index = {}
    /\ index' = { process_data[i] : i \in 1..Len(process_data) }
    /\ UNCHANGED << pc, user_query, max_results, filters, results,
                    matching_categories, catIdx, all_category_results, terms,
                    termIdx, search_results, search_time, is_personal_context,
                    messages, response, lastCall, raised, stage1Resp, allSeen,
                    keptSeen, llmCalls, retrieveCalls >>
    /\ UNCHANGED << lastHits, console >>
    /\ UNCHANGED offlineVars

\* query(), lines 200-204: enter _smart_search
StartQuery ==
    /\ pc = "idle"
    /\ \E q \in Queries, mr \in 1..MaxResults, f \in Filters :
          /\ user_query' = q
          /\ max_results' = ResultCount(mr)
          /\ filters' = f
    /\ pc' = "stage1"
    /\ retrieveCalls' = retrieveCalls + 1
    /\ UNCHANGED << index, results, matching_categories, catIdx,
                    all_category_results, terms, termIdx, search_results,
                    search_time, is_personal_context, messages, response,
                    lastCall, raised, stage1Resp, allSeen, keptSeen, llmCalls >>
    /\ console' = "Query: "
    /\ UNCHANGED lastHits
    /\ UNCHANGED offlineVars

\* _smart_search returns r (lines 112-120)
Return(r) ==
    /\ search_results' = PostProcess(r)
    /\ results' = PostProcess(r)
    /\ pc' = "searched"

\* line 90 onwards, with `results` being r
AfterStage2(r) ==
    IF Insufficient(r, max_results)
    THEN /\ results' = r
         /\ terms' = relevant_terms \o QueryWords(Lower(user_query))
         /\ termIdx' = 1
         /\ pc' = "stage3"
         /\ UNCHANGED search_results
    ELSE /\ Return(r)
         /\ UNCHANGED << terms, termIdx >>

\* line 37 and the test of line 40
Stage1Search ==
    /\ pc = "stage1"
    /\ \E resp \in SearchResponses(CurrentRequest.limit, CurrentRequest.filter) :
          /\ lastHits' = Len(Hits(resp))
          /\ stage1Resp' = resp
          /\ allSeen' = Ids(Hits(resp))
          /\ keptSeen' = Ids(Hits(resp))
          /\ IF Insufficient(resp, max_results)
             THEN /\ results' = resp
                  /\ matching_categories' = MatchingCategories(Lower(user_query))
                  /\ catIdx' = 1
                  /\ all_category_results' = << >>
                  /\ pc' = "stage2"
                  /\ UNCHANGED << search_results, terms, termIdx >>
             ELSE /\ AfterStage2(resp)
                  /\ UNCHANGED << matching_categories, catIdx, all_category_results >>
    /\ lastCall' = CurrentRequest
    /\ UNCHANGED << index, user_query, max_results, filters, search_time,
                    is_personal_context, messages, response, raised, llmCalls,
                    retrieveCalls >>
    /\ UNCHANGED console
    /\ UNCHANGED offlineVars

\* the end of one iteration of the loop of line 60, `collected` being
\* all_category_results after it; after the last one, lines 75-88
NextCategory(collected) ==
    IF catIdx < Len(matching_categories)
    THEN /\ catIdx' = catIdx + 1
         /\ all_category_results' = collected
         /\ pc' = "stage2"
         /\ UNCHANGED << results, search_results, terms, termIdx, keptSeen >>
    ELSE LET unique == unique_results(collected, max_results) IN
         /\ all_category_results' = collected
         /\ keptSeen' = (IF unique # << >> THEN FirstSeen(Ids(collected)) ELSE keptSeen)
         /\ AfterStage2(ReplaceHits(results, unique))
         /\ UNCHANGED catIdx

\* lines 63-68
Stage2Search ==
    /\ pc = "stage2"
    /\ \E resp \in SearchResponses(CurrentRequest.limit, CurrentRequest.filter) :
          /\ lastHits' = Len(Hits(resp))
          /\ allSeen' = FirstSeen(allSeen \o Ids(Hits(resp)))
          /\ IF Hits(resp) # << >>
             THEN NextCategory(all_category_results \o resp.hits)
             ELSE /\ pc' = "stage2retry"
                  /\ UNCHANGED << results, catIdx, all_category_results,
                                  search_results, terms, termIdx, keptSeen >>
    /\ lastCall' = CurrentRequest
    /\ UNCHANGED << index, user_query, max_results, filters, matching_categories,
                    search_time, is_personal_context, messages, response, raised,
                    stage1Resp, llmCalls, retrieveCalls >>
    /\ UNCHANGED console
    /\ UNCHANGED offlineVars

\* lines 70-73
Stage2Retry ==
    /\ pc = "stage2retry"
    /\ \E resp \in SearchResponses(CurrentRequest.limit, CurrentRequest.filter) :
          /\ lastHits' = Len(Hits(resp))
          /\ allSeen' = FirstSeen(allSeen \o Ids(Hits(resp)))
          /\ NextCategory(all_category_results \o Hits(resp))
    /\ lastCall' = CurrentRequest
    /\ UNCHANGED << index, user_query, max_results, filters, matching_categories,
                    search_time, is_personal_context, messages, response, raised,
                    stage1Resp, llmCalls, retrieveCalls >>
    /\ UNCHANGED console
    /\ UNCHANGED offlineVars

\* one iteration of the loop of line 96, and the test of line 97 for the next
Stage3Search ==
    /\ pc = "stage3"
    /\ \E resp \in SearchResponses(CurrentRequest.limit, CurrentRequest.filter) :
          LET merged == MergeTerm(results, resp, max_results) IN
          /\ lastHits' = Len(Hits(resp))
          /\ allSeen' = FirstSeen(allSeen \o Ids(Hits(resp)))
          /\ keptSeen' = FirstSeen(keptSeen \o Ids(Hits(resp)))
          /\ IF termIdx < Len(terms) /\ Len(Hits(merged)) < max_results
             THEN /\ results' = merged
                  /\ termIdx' = termIdx + 1
                  /\ pc' = "stage3"
                  /\ UNCHANGED search_results
             ELSE /\ Return(merged)
                  /\ UNCHANGED termIdx
    /\ lastCall' = CurrentRequest
    /\ UNCHANGED << index, user_query, max_results, filters, matching_categories,
                    catIdx, all_category_results, terms, search_time,
                    is_personal_context, messages, response, raised, stage1Resp,
                    llmCalls, retrieveCalls >>
    /\ UNCHANGED console
    /\ UNCHANGED offlineVars

\* MeilisearchClient.search raises (lines 166-168); _smart_search catches it
\* and returns the empty structure (lines 122-128)
SearchRaises ==
    /\ pc \in { "stage1", "stage2", "stage2retry", "stage3" }
    /\ lastCall' = CurrentRequest
    /\ raised' = TRUE
    /\ search_results' = SmartSearchExcept(results)
    /\ pc' = "searched"
    /\ UNCHANGED << index, user_query, max_results, filters, results,
                    matching_categories, catIdx, all_category_results, terms,
                    termIdx, search_time, is_personal_context, messages,
                    response, stage1Resp, allSeen, keptSeen, llmCalls,
                    retrieveCalls >>
    /\ UNCHANGED << lastHits, console >>
    /\ UNCHANGED offlineVars

\* query(), lines 206-226
AfterSearch ==
    /\ pc = "searched"
    /\ \E t \in { Elapsed } :
          /\ search_time' = t
          /\ IF NoHits(search_results)
             THEN /\ response' = NoResultsResponse(user_query, t)
                  /\ pc' = "done"
                  /\ UNCHANGED << is_personal_context, messages >>
             ELSE /\ is_personal_context' = detect_personal_context(user_query)
                  /\ messages' = create_rag_prompt(user_query, search_results.hits,
                                     detect_personal_context(user_query))
                  /\ pc' = "generating"
                  /\ UNCHANGED response
    /\ UNCHANGED << index, user_query, max_results, filters, results,
                    matching_categories, catIdx, all_category_results, terms,
                    termIdx, search_results, lastCall, raised, stage1Resp,
                    allSeen, keptSeen, llmCalls, retrieveCalls >>
    /\ UNCHANGED << lastHits, console >>
    /\ UNCHANGED offlineVars

\* query(), lines 228-284: the LLM answers
Generate ==
    /\ pc = "generating"
    /\ \E answer \in Answers, t \in { Elapsed } :
          response' = QueryResponse(user_query, search_results,
                                    is_personal_context, answer, search_time, t)
    /\ llmCalls' = llmCalls + 1
    /\ pc' = "done"
    /\ UNCHANGED << index, user_query, max_results, filters, results,
                    matching_categories, catIdx, all_category_results, terms,
                    termIdx, search_results, search_time, is_personal_context,
                    messages, lastCall, raised, stage1Resp, allSeen, keptSeen,
                    retrieveCalls >>
    /\ UNCHANGED << lastHits, console >>
    /\ UNCHANGED offlineVars

\* query(), lines 286-288: generate_response raises and query re-raises
GenerateRaises ==
    /\ pc = "generating"
    /\ llmCalls' = llmCalls + 1
    /\ pc' = "failed"
    /\ UNCHANGED << index, user_query, max_results, filters, results,
                    matching_categories, catIdx, all_category_results, terms,
                    termIdx, search_results, search_time, is_personal_context,
                    messages, response, lastCall, raised, stage1Resp, allSeen,
                    keptSeen, retrieveCalls >>
    /\ UNCHANGED << lastHits, console >>
    /\ UNCHANGED offlineVars

\* what generate_response raised, as the loop prints it (line 361)
ErrorLine == "Error: LLM call failed"

\* lines 353 and 361: what the interactive loop prints for a query that
\* ended at `outcome`
LoopPrints(outcome) == IF outcome = "done" THEN response.answer ELSE ErrorLine

\* a loop that lets the exception of a query end the process
LoopNext_ExitOnError(outcome) == IF outcome = "failed" THEN "exited" ELSE "idle"

\* lines 343-361: after either outcome the loop asks for the next query
LoopNext(outcome) == "idle"

\* the caller takes the response (or the exception); the locals of the call die
EndQuery ==
    /\ pc \in { "done", "failed" }
    /\ pc' = LoopNext(pc)
    /\ user_query' = ""
    /\ max_results' = 0
    /\ filters' = NoFilter
    /\ results' = EmptyDict
    /\ matching_categories' = << >>
    /\ catIdx' = 0
    /\ all_category_results' = << >>
    /\ terms' = << >>
    /\ termIdx' = 0
    /\ search_results' = None
    /\ search_time' = 0
    /\ is_personal_context' = TRUE
    /\ messages' = << >>
    /\ response' = None
    /\ lastCall' = NoCall
    /\ raised' = FALSE
    /\ stage1Resp' = EmptyDict
    /\ allSeen' = << >>
    /\ keptSeen' = << >>
    /\ llmCalls' = 0
    /\ retrieveCalls' = 0
    /\ UNCHANGED index
    /\ lastHits' = 0
    /\ console' = LoopPrints(pc)
    /\ UNCHANGED offlineVars

Next ==
    \/ SetupIndex
    \/ StartQuery
    \/ Stage1Search
    \/ Stage2Search
    \/ Stage2Retry
    \/ Stage3Search
    \/ SearchRaises
    \/ AfterSearch
    \/ Generate
    \/ GenerateRaises
    \/ EndQuery

Spec == Init /\ [][Next]_vars

----------------------------------------------------------------------------
(* Runs of the pipeline that ask for as many hits as the index holds *)

WideQueries == { "chair" }

\* query(), lines 200-204, called with max_results = WideResults and no filter
StartWideQuery ==
    /\ pc = "idle"
    /\ \E q \in WideQueries :
          /\ user_query' = q
          /\ max_results' = ResultCount(WideResults)
          /\ filters' = NoFilter
    /\ pc' = "stage1"
    /\ retrieveCalls' = retrieveCalls + 1
    /\ UNCHANGED << index, results, matching_categories, catIdx,
                    all_category_results, terms, termIdx, search_results,
                    search_time, is_personal_context, messages, response,
                    lastCall, raised, stage1Resp, allSeen, keptSeen, llmCalls >>
    /\ console' = "Query: "
    /\ UNCHANGED lastHits
    /\ UNCHANGED offlineVars

NextWide ==
    \/ SetupIndex
    \/ StartWideQuery
    \/ Stage1Search
    \/ Stage2Search
    \/ Stage2Retry
    \/ Stage3Search
    \/ SearchRaises
    \/ AfterSearch
    \/ Generate
    \/ GenerateRaises
    \/ EndQuery

SpecWide == Init /\ [][NextWide]_vars

----------------------------------------------------------------------------
(* Runs of the intent classifier alone *)

\* terms a classified query starts with: every keyword of both sets, some of
\* them in upper case, and words of neither set
LeadTerms ==
    { personal_keywords[i] : i \in 1..Len(personal_keywords) }
        \cup { business_keywords[i] : i \in 1..Len(business_keywords) }
        \cup { "Profit", "ROI", "Gift", "chair", "show" }

\* terms a classified query continues with
MoreTerms ==
    { "profit", "Margins", "management", "commercial", "buy", "me", "Vacation", "chair" }

ClassifierInputs ==
    { << >> }
        \cup { << t >> \o more : t \in LeadTerms,
                 more \in UNION { [1..k -> MoreTerms] : k \in 0..(MaxWords - 1) } }

ClassifierQuery == Join(cterms)

InitClassify ==
    /\ PipelineInit
    /\ cterms \in ClassifierInputs
    /\ cpc = "input"
    /\ clabel = TRUE
    /\ BuilderIdle
    /\ SetupIdle
    /\ UploadIdle

Classify ==
    /\ cpc = "input"
    /\ clabel' = detect_personal_context(ClassifierQuery)
    /\ cpc' = "classified"
    /\ UNCHANGED cterms
    /\ UNCHANGED pipelineVars
    /\ UNCHANGED << builderVars, setupVars, uploadVars >>

NextClassify == Classify

SpecClassify == InitClassify /\ [][NextClassify]_vars

----------------------------------------------------------------------------
(* Runs of the document builder alone *)

Around(boundary) == { n \in (boundary - Window)..(boundary + Window) : TRUE }

\* amounts at zero and on both sides of the boundaries 100 and 500
BuilderAmounts == (0..Window) \cup Around(100 * 100) \cup Around(500 * 100)

\* profits on both sides of the boundaries 0 and 50
BuilderProfits == Around(0) \cup Around(50 * 100)

\* quantities on both sides of the boundaries 2 and 5
BuilderQuantities == 0..(5 + Window)

BuilderRows ==
    [OrderID : { "B-1" }, Amount : BuilderAmounts, Profit : BuilderProfits,
     Quantity : BuilderQuantities, Category : { "Furniture" },
     SubCategory : { "Chairs" }]

InitBuild ==
    /\ PipelineInit
    /\ ClassifierIdle
    /\ SetupIdle
    /\ UploadIdle
    /\ brow \in BuilderRows
    /\ bdoc = None
    /\ bpc = "row"

\* one iteration of the loop of process_data, lines 45-60
Build ==
    /\ bpc = "row"
    /\ bdoc' = BuildRow(brow, 0)
    /\ bpc' = "built"
    /\ UNCHANGED brow
    /\ UNCHANGED pipelineVars
    /\ UNCHANGED << classifierVars, setupVars, uploadVars >>

NextBuild == Build

SpecBuild == InitBuild /\ [][NextBuild]_vars

----------------------------------------------------------------------------
(* Runs of setup_index against an engine that keeps its index between runs *)

\* the documents process_data builds from the input file
InputDocuments == { process_data[i] : i \in 1..Len(process_data) }

\* documents an earlier input file left in the engine: an older version of
\* the first row, and a row past the end of the present file
StaleDocuments ==
    { BuildRow([Rows[1] EXCEPT !.Amount = Rows[1].Amount + 1], 0),
      BuildRow(Rows[1], Len(Rows)) }

\* the engine stores one document per primary key 'id' (create_index, line 40)
Upsert(stored, docs) ==
    { d \in stored : \A n \in docs : n.id # d.id } \cup docs

\* the first n documents of process_data
FirstDocuments(n) == { process_data[i] : i \in 1..n }

InitSetup ==
    /\ index \in SUBSET StaleDocuments
    /\ QueryIdle
    /\ ClassifierIdle
    /\ BuilderIdle
    /\ UploadIdle
    /\ spc = "start"
    /\ failedSteps = {}
    /\ setupResult = None
    /\ setupRuns = 1
    /\ indexAfter = << >>

\* what a step of setup_index leaves alone
SetupFrame ==
    /\ UNCHANGED queryVars
    /\ UNCHANGED << classifierVars, builderVars, uploadVars >>
    /\ UNCHANGED setupRuns

\* the except clause of setup_index, lines 189-192
SetupRaises(step) ==
    /\ failedSteps' = failedSteps \cup { step }
    /\ setupResult' = "raised"
    /\ spc' = "raised"

\* lines 166-169: health_check() returns False when the engine does not answer
HealthCheck ==
    /\ spc = "start"
    /\ \/ /\ spc' = "healthy"
          /\ UNCHANGED << failedSteps, setupResult >>
       \/ /\ failedSteps' = failedSteps \cup { "health_check" }
          /\ setupResult' = "False"
          /\ spc' = "returned"
    /\ UNCHANGED index
    /\ UNCHANGED indexAfter
    /\ SetupFrame

\* line 172: delete_index() returns False when the deletion failed, and the
\* value is dropped
DeleteIndex ==
    /\ spc = "healthy"
    /\ \/ /\ index' = {}
          /\ UNCHANGED failedSteps
       \/ /\ failedSteps' = failedSteps \cup { "delete_index" }
          /\ UNCHANGED index
    /\ spc' = "deleted"
    /\ UNCHANGED setupResult
    /\ UNCHANGED indexAfter
    /\ SetupFrame

\* line 177: create_index() returns True for a new index and for one that
\* already exists, and raises otherwise
CreateIndex ==
    /\ spc = "deleted"
    /\ \/ /\ spc' = "created"
          /\ UNCHANGED << failedSteps, setupResult >>
       \/ SetupRaises("create_index")
    /\ UNCHANGED index
    /\ UNCHANGED indexAfter
    /\ SetupFrame

\* line 178: configure_search_settings() raises when the engine refuses
ConfigureSettings ==
    /\ spc = "created"
    /\ \/ /\ spc' = "configured"
          /\ UNCHANGED << failedSteps, setupResult >>
       \/ SetupRaises("configure_search_settings")
    /\ UNCHANGED index
    /\ UNCHANGED indexAfter
    /\ SetupFrame

\* line 181: process_data() raises when the input file cannot be read
LoadData ==
    /\ spc = "configured"
    /\ \/ /\ spc' = "loaded"
          /\ UNCHANGED << failedSteps, setupResult >>
       \/ SetupRaises("process_data")
    /\ UNCHANGED index
    /\ UNCHANGED indexAfter
    /\ SetupFrame

\* lines 184-187: add_documents stores the documents and setup_index returns
\* True, or raises after the engine took some of them
AddDocuments ==
    /\ spc = "loaded"
    /\ \/ /\ index' = Upsert(index, InputDocuments)
          /\ indexAfter' = Append(indexAfter, index')
          /\ setupResult' = "True"
          /\ spc' = "returned"
          /\ UNCHANGED failedSteps
       \/ /\ \E n \in 0..Len(process_data) :
                index' = Upsert(index, FirstDocuments(n))
          /\ SetupRaises("add_documents")
          /\ UNCHANGED indexAfter
    /\ SetupFrame

\* the program is started again: __main__, lines 323-328
StartAgain ==
    /\ spc \in { "returned", "raised" }
    /\ setupRuns < MaxSetups
    /\ setupRuns' = setupRuns + 1
    /\ spc' = "start"
    /\ failedSteps' = {}
    /\ setupResult' = None
    /\ UNCHANGED << index, indexAfter >>
    /\ UNCHANGED queryVars
    /\ UNCHANGED << classifierVars, builderVars, uploadVars >>

NextSetup ==
    \/ HealthCheck
    \/ DeleteIndex
    \/ CreateIndex
    \/ ConfigureSettings
    \/ LoadData
    \/ AddDocuments
    \/ StartAgain

SpecSetup == InitSetup /\ [][NextSetup]_vars

----------------------------------------------------------------------------
(* Runs of MeilisearchClient.add_documents *)

\* line 84
batch_size == 100
\* line 94
max_wait == 30

\* stats.get('isIndexing', False) for a dictionary without the key: the
\* dictionaries of lines 249-254 and 257-264
NoIsIndexing == "absent"

\* the isIndexing entry of the engine's statistics
IsIndexing(busy) == IF busy THEN "True" ELSE "False"

\* the value of range(0, len(documents), batch_size) the loop is at
NextOffset == batch_size * Len(sent)

InitUpload ==
    /\ PipelineInit
    /\ ClassifierIdle
    /\ BuilderIdle
    /\ SetupIdle
    /\ documents \in 0..MaxDocs
    /\ sent = << >>
    /\ wait_time = 0
    /\ polls = 0
    /\ indexing = FALSE
    /\ stats = None
    /\ upc = "sending"

UploadFrame ==
    /\ UNCHANGED pipelineVars
    /\ UNCHANGED << classifierVars, builderVars, setupVars >>
    /\ UNCHANGED documents

\* lines 85-89: documents[i:i + batch_size] goes to the engine, which starts
\* indexing in the background; the batch is the positions i+1 .. i+batch_size
SendBatch ==
    /\ upc = "sending"
    /\ NextOffset < documents
    /\ sent' = Append(sent, << NextOffset + 1,
                               Min(NextOffset + batch_size, documents) >>)
    /\ indexing' = TRUE
    /\ UNCHANGED << wait_time, polls, stats, upc >>
    /\ UploadFrame

\* line 87 raises: lines 106-108
SendRaises ==
    /\ upc = "sending"
    /\ NextOffset < documents
    /\ upc' = "raised"
    /\ UNCHANGED << sent, wait_time, polls, indexing, stats >>
    /\ UploadFrame

\* lines 91-95: the loop over the batches is over
StartWait ==
    /\ upc = "sending"
    /\ NextOffset >= documents
    /\ wait_time' = 0
    /\ upc' = "waiting"
    /\ UNCHANGED << sent, polls, indexing, stats >>
    /\ UploadFrame

\* lines 96-102: one pass of the poll loop. get_index_stats() returns the
\* engine's isIndexing, or a dictionary without it
Poll ==
    /\ upc = "waiting"
    /\ wait_time < max_wait
    /\ stats' \in { IsIndexing(indexing), NoIsIndexing }
    /\ polls' = polls + 1
    /\ IF stats' = "True"
          THEN /\ wait_time' = wait_time + 1
               /\ UNCHANGED upc
          ELSE /\ upc' = "returned"
               /\ UNCHANGED wait_time
    /\ UNCHANGED << sent, indexing >>
    /\ UploadFrame

\* lines 96, 104: wait_time reached max_wait
WaitOver ==
    /\ upc = "waiting"
    /\ wait_time >= max_wait
    /\ upc' = "returned"
    /\ UNCHANGED << sent, wait_time, polls, indexing, stats >>
    /\ UploadFrame

\* the engine finishes its background indexing
EngineFinishes ==
    /\ upc \in { "sending", "waiting" }
    /\ indexing
    /\ indexing' = FALSE
    /\ UNCHANGED << sent, wait_time, polls, stats, upc >>
    /\ UploadFrame

NextUpload ==
    \/ SendBatch
    \/ SendRaises
    \/ StartWait
    \/ Poll
    \/ WaitOver
    \/ EngineFinishes

SpecUpload == InitUpload /\ [][NextUpload]_vars

----------------------------------------------------------------------------
(* Properties of the retrieval and of the query pipeline *)

\* _smart_search has returned to query()
Returned == pc \in { "searched", "generating", "done", "failed" }

stage1Hits == Hits(stage1Resp)

\* C1: a gateway call that raises, at whatever stage, never makes
\* _smart_search (or the query) fail: _smart_search returns, and what it
\* returns is exactly hits = [], estimatedTotalHits = 0, processingTimeMs = 0.
C1_DegradeToEmpty ==
    raised => /\ pc \in { "searched", "done" }
              /\ search_results = EmptyResult

\* a stage-3 call raised after earlier stages had collected hits
C1_Witness ==
    /\ raised
    /\ pc = "searched"
    /\ lastCall.stage = "stage3"
    /\ Hits(results) # << >>

\* C2: a query runs _smart_search once; it calls the LLM exactly once when
\* the search returned a hit and never when it returned none, and in that
\* case it returns the canned answer with llm_time 0, no sources and zero
\* search statistics instead of raising.
C2_QueryStateMachine ==
    /\ retrieveCalls = (IF pc = "idle" THEN 0 ELSE 1)
    /\ pc \in { "idle", "stage1", "stage2", "stage2retry", "stage3", "searched" }
          => llmCalls = 0
    /\ pc = "generating" => llmCalls = 0 /\ search_results.hits # << >>
    /\ pc = "failed" => llmCalls = 1 /\ search_results.hits # << >>
    /\ pc = "done" =>
          IF search_results.hits = << >>
          THEN /\ llmCalls = 0
               /\ response.answer = NO_RESULTS_ANSWER
               /\ response.llm_time = 0
               /\ response.sources = << >>
               /\ response.search_stats = [total_hits |-> 0, processing_time_ms |-> 0]
          ELSE /\ llmCalls = 1
               /\ Len(response.sources) = Len(search_results.hits)

\* the search engine raised and the query ended with the canned answer
C2_Witness ==
    /\ pc = "done"
    /\ raised
    /\ llmCalls = 0
    /\ response.answer = NO_RESULTS_ANSWER

\* C3: _smart_search never returns more than max_results hits.
C3_AtMostMaxResults ==
    Returned => Len(search_results.hits) <= max_results

\* stage 2 found more distinct documents than asked for and cut the list
C3_Witness ==
    /\ pc = "searched"
    /\ ~ raised
    /\ lastCall.stage \in { "stage2", "stage2retry" }
    /\ Len(FirstSeen(Ids(all_category_results))) > max_results
    /\ Len(search_results.hits) = max_results

\* C5: when stage 1 returns at least max_results hits, no other search is
\* issued and the stage-1 hits are returned as they are.
C5_Stage1ShortCircuit ==
    (lastCall.stage # "none" /\ Len(stage1Hits) >= max_results) =>
        /\ pc \notin { "stage2", "stage2retry", "stage3" }
        /\ lastCall.stage = "stage1"
        /\ (Returned /\ ~ raised) => search_results.hits = stage1Hits

\* stage 1 filled the list with two hits
C5_Witness ==
    /\ pc = "searched"
    /\ ~ raised
    /\ Len(stage1Hits) = max_results
    /\ max_results >= 2
    /\ search_results.hits = stage1Hits

NoRepeat(ids) == \A i, j \in 1..Len(ids) : ids[i] = ids[j] => i = j

\* the ids appear in `ids` in the order in which they appear in `order`
InOrderOf(ids, order) ==
    \A i, j \in 1..Len(ids) :
        i < j => \E a, b \in 1..Len(order) :
                    a < b /\ order[a] = ids[i] /\ order[b] = ids[j]

\* C4 as claimed: the returned list holds no id twice and lists the hits in
\* the order in which their ids were first seen in the batches the gateway
\* returned, stage 1 included.
C4_FirstSeenOverAllBatches ==
    (Returned /\ ~ raised) =>
        /\ NoRepeat(Ids(search_results.hits))
        /\ InOrderOf(Ids(search_results.hits), allSeen)

\* C4 as amended: no id twice, and the order is that of first appearance in
\* the batches the result is built from: the stage-1 batch only when stage 2
\* found nothing, else the stage-2 batches, followed by the stage-3 batches.
C4_FirstSeenOverKeptBatches ==
    (Returned /\ ~ raised) =>
        /\ NoRepeat(Ids(search_results.hits))
        /\ InOrderOf(Ids(search_results.hits), keptSeen)

\* stage 2 replaced the stage-1 hit and stage 3 found that hit again
C4_Witness ==
    /\ pc = "searched"
    /\ ~ raised
    /\ lastCall.stage = "stage3"
    /\ Len(stage1Hits) = 1
    /\ Len(search_results.hits) >= 2
    /\ search_results.hits[Len(search_results.hits)].id = stage1Hits[1].id
    /\ search_results.hits[1].id # stage1Hits[1].id

\* the categories whose trigger keywords occur in the lower-cased query
TriggeredCategories(query_lower) ==
    { category_mapping[i].category : i \in
        { j \in 1..Len(category_mapping) :
            \E k \in 1..Len(category_mapping[j].keywords) :
                Contains(query_lower, category_mapping[j].keywords[k]) } }

\* stage 1 fell short and the query triggers exactly one category
SingleCategoryCase ==
    /\ Returned
    /\ ~ raised
    /\ Len(stage1Hits) < max_results
    /\ Cardinality(TriggeredCategories(Lower(user_query))) = 1

TheCategory == CHOOSE c \in TriggeredCategories(Lower(user_query)) : TRUE

\* the number of distinct documents stage 2 found
Stage2Found == Len(FirstSeen(Ids(all_category_results)))

\* C8 as claimed: in the single-category case every returned hit belongs to
\* the triggered category.
C8_OnlyTheCategory ==
    SingleCategoryCase =>
        \A i \in 1..Len(search_results.hits) :
            Lower(search_results.hits[i].category) = TheCategory

\* C8 as amended: the hits stage 2 put into the list, the first
\* min(found, max_results) of it, belong to the triggered category; what
\* follows them comes from the unfiltered stage-3 searches.
C8_Stage2HitsOfTheCategory ==
    SingleCategoryCase =>
        /\ Len(search_results.hits) >= Min(Stage2Found, max_results)
        /\ \A i \in 1..Min(Stage2Found, max_results) :
              search_results.hits[i].category = Title(TheCategory)

\* stage 2 found one Furniture hit and stage 3 added a hit of another category
C8_Witness ==
    /\ SingleCategoryCase
    /\ Stage2Found = 1
    /\ Len(search_results.hits) = 2
    /\ search_results.hits[1].category = Title(TheCategory)
    /\ search_results.hits[2].category # Title(TheCategory)

\* C9 as claimed: against an index without documents _smart_search returns
\* exactly hits = [], estimatedTotalHits = 0, processingTimeMs = 0.
C9_EmptyIndexAllZero ==
    (Returned /\ ~ raised /\ index = {}) => search_results = EmptyResult

\* C9 as amended: every returned structure has the three keys; against an
\* index without documents hits is [] and estimatedTotalHits is 0, and
\* processingTimeMs is what the engine reported for the stage-1 search, 0
\* only when it reported none.
C9_EmptyIndexKeepsEngineTime ==
    /\ Returned => search_results.keys = { "hits", "estimatedTotalHits", "processingTimeMs" }
    /\ (Returned /\ ~ raised /\ index = {}) =>
          /\ search_results.hits = << >>
          /\ search_results.estimatedTotalHits = 0
          /\ search_results.processingTimeMs = GetKey(stage1Resp, "processingTimeMs", 0)

\* all three stages ran against the empty index and the engine's time is kept
C9_Witness ==
    /\ pc = "searched"
    /\ ~ raised
    /\ index = {}
    /\ lastCall.stage = "stage3"
    /\ search_results.hits = << >>
    /\ search_results.processingTimeMs > 0

\* a document with its profit and everything derived from it blanked
Redact(doc) ==
    [doc EXCEPT !.profit = 0, !.business_content = "", !.profit_range = ""]

RedactHits(found) ==
    Put(found, "hits", [i \in 1..Len(found.hits) |-> Redact(found.hits[i])])

\* C10 as claimed: for a PERSONAL query the response is the one the same
\* query gives on documents whose profit is blanked (no field carries a
\* profit or a business_content), every source has profit null and the
\* consumer content; for a BUSINESS query every source carries the signed
\* profit string.
C10_ProfitOnlyForBusiness ==
    (pc = "done" /\ llmCalls = 1) =>
        LET hits == search_results.hits IN
        IF is_personal_context
        THEN /\ \A i \in 1..Len(hits) :
                   /\ response.sources[i].profit = None
                   /\ response.sources[i].content = hits[i].content
             /\ response = QueryResponse(user_query, RedactHits(search_results), TRUE,
                               response.answer, response.search_time, response.llm_time)
        ELSE \A i \in 1..Len(hits) :
                response.sources[i].profit =
                    (IF hits[i].profit > 0 THEN "+$" ELSE IF hits[i].profit < 0 THEN "-$" ELSE "$")
                        \o ToString(Abs(hits[i].profit) \div 100) \o "."
                        \o SubSeq(ToString(100 + (Abs(hits[i].profit) % 100)), 2, 3)

----------------------------------------------------------------------------
(* Properties of the intent classifier *)

SetOf(seq) == { seq[i] : i \in 1..Len(seq) }

\* the places of the lower-cased query at which `term` stands
Places(query_lower, term) ==
    { i \in 1..(Len(query_lower) - Len(term) + 1) :
        SubSeq(query_lower, i, i + Len(term) - 1) = term }

RECURSIVE SumPlaces(_, _)
SumPlaces(query_lower, termSet) ==
    IF termSet = {} THEN 0
    ELSE LET t == CHOOSE x \in termSet : TRUE
         IN  Cardinality(Places(query_lower, t)) + SumPlaces(query_lower, termSet \ {t})

\* the number of occurrences of the keywords in the query, letter case ignored
OccurrenceCount(query, keywords) == SumPlaces(Lower(query), SetOf(keywords))

\* the number of keywords that occur in the query, letter case ignored
TermCount(query, keywords) ==
    LET query_lower == Lower(query)
    IN  Cardinality({ t \in SetOf(keywords) : Places(query_lower, t) # {} })

\* C6 as claimed: the counts are the numbers of substring occurrences of the
\* keywords; BUSINESS exactly when business_count > personal_count and
\* business_count > 0.
C6_DecisionByOccurrences ==
    cpc = "classified" =>
        LET business_count == OccurrenceCount(ClassifierQuery, business_keywords)
            personal_count == OccurrenceCount(ClassifierQuery, personal_keywords)
        IN  (clabel = FALSE) <=> (business_count > personal_count /\ business_count > 0)

\* C6 as amended: the counts are the numbers of keywords of each set that
\* occur in the query at least once, each keyword counted once; BUSINESS
\* exactly when business_count > personal_count and business_count > 0, so
\* ties and the empty query give PERSONAL.
C6_DecisionByTerms ==
    cpc = "classified" =>
        LET business_count == TermCount(ClassifierQuery, business_keywords)
            personal_count == TermCount(ClassifierQuery, personal_keywords)
        IN  /\ (clabel = FALSE) <=> (business_count > personal_count /\ business_count > 0)
            /\ business_count = personal_count => clabel = TRUE
            /\ ClassifierQuery = "" => clabel = TRUE

\* a query in mixed case with keywords of both sets, classified BUSINESS
C6_Witness ==
    /\ cpc = "classified"
    /\ clabel = FALSE
    /\ ClassifierQuery # Lower(ClassifierQuery)
    /\ TermCount(ClassifierQuery, personal_keywords) > 0

\* C7 as claimed: a query made up only of BUSINESS keywords is BUSINESS, a
\* query made up only of PERSONAL keywords is PERSONAL.
C7_KeywordOnlyQueries ==
    (cpc = "classified" /\ cterms # << >>) =>
        /\ (\A i \in 1..Len(cterms) : Lower(cterms[i]) \in SetOf(business_keywords))
              => clabel = FALSE
        /\ (\A i \in 1..Len(cterms) : Lower(cterms[i]) \in SetOf(personal_keywords))
              => clabel = TRUE

----------------------------------------------------------------------------
(* Properties of the prompt and of the response *)

\* the LLM has been asked, or is being asked, about the hits of this query
Prompted == pc \in { "generating", "failed" } \/ (pc = "done" /\ llmCalls = 1)

\* the label the response reports, or will report
ReportedLabel ==
    IF pc = "done" THEN response.context_detected
    ELSE IF is_personal_context THEN "PERSONAL" ELSE "BUSINESS"

\* what a hit contributes under a label
EntryFor(hit, label) ==
    IF label = "PERSONAL" THEN hit.content
    ELSE IF "business_content" \in DOMAIN hit THEN hit.business_content
    ELSE hit.content

\* the lines "i. <entry>" for the hits from position i on
RECURSIVE NumberedEntries(_, _, _)
NumberedEntries(hits, i, label) ==
    IF i > Len(hits) THEN ""
    ELSE ToString(i) \o ". " \o EntryFor(hits[i], label) \o "\n"
             \o NumberedEntries(hits, i + 1, label)

StartsWith(s, prefix) ==
    Len(s) >= Len(prefix) /\ SubSeq(s, 1, Len(prefix)) = prefix

\* C11: the prompt is a system message followed by a user message; the user
\* message lists the hits numbered 1..n in the order of the hit list, entry i
\* being the i-th hit's content for PERSONAL and its business_content for
\* BUSINESS, under the very label the response reports and uses for its sources.
C11_PromptFollowsLabel ==
    Prompted =>
        LET hits == search_results.hits IN
        /\ Len(messages) = 2
        /\ messages[1].role = "system"
        /\ messages[2].role = "user"
        /\ StartsWith(messages[2].content,
               "Product Data:\n" \o NumberedEntries(hits, 1, ReportedLabel)
                   \o "\n\nUser Question: " \o user_query \o "\n")
        /\ pc = "done" =>
              /\ Len(response.sources) = Len(hits)
              /\ \A i \in 1..Len(hits) :
                    response.sources[i].content = EntryFor(hits[i], ReportedLabel)

\* a BUSINESS query answered from two hits
C11_Witness ==
    /\ pc = "done"
    /\ llmCalls = 1
    /\ response.context_detected = "BUSINESS"
    /\ Len(search_results.hits) = 2
    /\ Len(messages) = 2

\* C16: every response query returns, the no-results response included,
\* carries the query, the answer, the detected intent label, the sources,
\* the three timings and the search statistics.
C16_ResponseFields ==
    pc = "done" =>
        /\ { "query", "answer", "context_detected", "sources", "search_time",
             "llm_time", "total_time", "search_stats" } \subseteq DOMAIN response
        /\ { "total_hits", "processing_time_ms" } \subseteq DOMAIN response.search_stats

\* the state of the pipeline between two queries, console aside
BetweenQueries ==
    /\ user_query = ""
    /\ max_results = 0
    /\ filters = NoFilter
    /\ results = EmptyDict
    /\ search_results = None
    /\ response = None
    /\ messages = << >>
    /\ llmCalls = 0
    /\ retrieveCalls = 0
    /\ raised = FALSE

\* C13: when the LLM call of a query with hits fails, query() hands the
\* failure to its caller and no response; the interactive loop prints an
\* error line and goes on to read the next query, which starts from the
\* state every query starts from.
C13_GenerationFailureIsPerQuery ==
    /\ pc = "failed" =>
          /\ response = None
          /\ llmCalls = 1
          /\ search_results.hits # << >>
          /\ ~ raised
    /\ console = ErrorLine =>
          /\ pc = "idle"
          /\ BetweenQueries
    /\ pc = "idle" => BetweenQueries

\* the loop has printed the error line of a failed query over a built index
C13_Witness ==
    /\ console = ErrorLine
    /\ pc = "idle"
    /\ index # {}

----------------------------------------------------------------------------
(* Properties of the order of the gateway calls *)

CategoryOrder == << "clothing", "furniture", "electronics" >>

\* the categories stage 2 is to search for a lower-cased query
ExpectedCategories(query_lower) ==
    LET Wanted(c) == c \in TriggeredCategories(query_lower)
    IN  IF TriggeredCategories(query_lower) = {} THEN CategoryOrder
        ELSE SelectSeq(CategoryOrder, Wanted)

\* "category = '<Category>'" for the category stage 2 is at
ExpectedFilter ==
    "category = '" \o Title(ExpectedCategories(Lower(user_query))[catIdx]) \o "'"

\* a category has been dealt with: the loop moves to the next one, or leaves
\* stage 2 after the last one
CategoryDone ==
    \/ /\ catIdx < Len(matching_categories)
       /\ pc' = "stage2"
       /\ catIdx' = catIdx + 1
    \/ /\ catIdx = Len(matching_categories)
       /\ pc' \in { "stage3", "searched" }

C18_Step ==
    /\ (pc = "stage1" /\ ~ raised') =>
          /\ (pc' = "stage2") <=> (lastHits' < max_results)
          /\ pc' = "stage2" =>
                /\ matching_categories' = ExpectedCategories(Lower(user_query))
                /\ catIdx' = 1
    /\ (pc \in { "stage2", "stage2retry" } /\ ~ raised') =>
          /\ matching_categories' = matching_categories
          /\ matching_categories = ExpectedCategories(Lower(user_query))
          /\ lastCall'.filter = ExpectedFilter
    /\ (pc = "stage2" /\ ~ raised') =>
          /\ lastCall'.stage = "stage2"
          /\ lastCall'.query = user_query
          /\ lastCall'.limit = 2 * max_results
          /\ (pc' = "stage2retry") <=> (lastHits' = 0)
          /\ pc' = "stage2retry" => catIdx' = catIdx
          /\ pc' # "stage2retry" => CategoryDone
    /\ (pc = "stage2retry" /\ ~ raised') =>
          /\ lastCall.stage = "stage2"
          /\ lastHits = 0
          /\ lastCall'.stage = "stage2retry"
          /\ lastCall'.query = matching_categories[catIdx]
          /\ CategoryDone
    /\ pc' = "stage2" => pc \in { "stage1", "stage2", "stage2retry" }
    /\ pc' = "stage2retry" => pc = "stage2"

\* C18: when stage 1 falls short, stage 2 searches the categories the query
\* triggers, or all three when it triggers none, in the order clothing,
\* furniture, electronics, each once with the raw query, the filter
\* category = '<Category>' and limit 2 * max_results; the retry with the
\* category name as query is issued exactly when that search returned no hit.
C18_Stage2Calls == [][C18_Step]_vars

\* the retry of the second of several categories has been answered
C18_Witness ==
    /\ lastCall.stage = "stage2retry"
    /\ ~ raised
    /\ Len(matching_categories) = 3
    /\ lastCall.query = "furniture"
    /\ index # {}

\* the terms stage 3 is to try for a lower-cased query
ExpectedTerms(query_lower) ==
    LET Long(word) == Len(word) > 2
    IN  << "clothing", "furniture", "electronics", "phone", "chair", "saree",
           "stole", "affordable", "gift", "office" >>
            \o SelectSeq(Split(query_lower), Long)

C19_Step ==
    /\ (pc # "stage3" /\ pc' = "stage3") =>
          /\ Len(Hits(results')) < max_results
          /\ terms' = ExpectedTerms(Lower(user_query))
          /\ termIdx' = 1
    /\ (pc = "stage3" /\ ~ raised') =>
          LET old == Hits(results)
              new == Hits(results')
          IN  /\ Len(old) < max_results
              /\ lastCall'.stage = "stage3"
              /\ lastCall'.query = terms[termIdx]
              /\ lastCall'.filter = NoFilter
              /\ lastCall'.limit = max_results - Len(old)
              /\ Len(new) >= Len(old)
              /\ Len(new) <= max_results
              /\ SubSeq(new, 1, Len(old)) = old
              /\ \A j \in (Len(old) + 1)..Len(new) :
                    \A i \in 1..Len(new) : new[i].id = new[j].id => i = j
              /\ pc' = "stage3" =>
                    /\ termIdx' = termIdx + 1
                    /\ terms' = terms
                    /\ Len(new) < max_results
              /\ pc' # "stage3" =>
                    /\ pc' = "searched"
                    /\ termIdx = Len(terms) \/ Len(new) >= max_results

\* C19: stage 3 runs only while fewer than max_results hits are held; it
\* tries the fixed domain terms and then the query words longer than two
\* characters, in that order, each with an unfiltered search asking for
\* max_results minus the number of hits held; the hits held keep their
\* positions and only hits with ids not yet in the list are appended.
C19_Stage3Calls == [][C19_Step]_vars

\* a stage-3 search added a new hit behind a hit that was already held
C19_Witness ==
    /\ pc = "searched"
    /\ ~ raised
    /\ lastCall.stage = "stage3"
    /\ lastCall.held = 1
    /\ lastHits = 1
    /\ Len(search_results.hits) = 2

----------------------------------------------------------------------------
(* Properties of the document builder *)

\* C12: business_content states the profit of the record; content is the
\* same whatever the profit of the record is, and holds neither the profit
\* as business_content states it, nor the profit range, nor the profit
\* descriptor; both are what building the record again gives.
C12_ContentIgnoresProfit ==
    bpc = "built" =>
        /\ Contains(bdoc.business_content, "Profit: $" \o Fmt2(brow.Profit))
        /\ \A p \in BuilderProfits :
              BuildRow([brow EXCEPT !.Profit = p], 0).content = bdoc.content
        /\ ~ Contains(bdoc.content, "Profit")
        /\ ~ Contains(bdoc.content, bdoc.profit_range)
        /\ ~ Contains(bdoc.content, get_profit_description(brow.Profit))
        /\ bdoc.content = BuildRow(brow, 0).content
        /\ bdoc.business_content = BuildRow(brow, 0).business_content

\* a record sold at a loss whose price shows the same digits as its profit
C12_Witness ==
    /\ bpc = "built"
    /\ brow.Profit = -1
    /\ brow.Amount = 1
    /\ Contains(bdoc.business_content, "Profit: $-0.01")

\* the consumer price descriptor of a bucket of amounts
PriceWord(range) ==
    IF range = "low" THEN "affordable"
    ELSE IF range = "medium" THEN "mid-range"
    ELSE "premium"

\* C17: an amount >= 0 is low below 100, medium from 100 up to but not
\* including 500, high from 500 on, and the consumer price descriptor of the
\* record names the same bucket.
C17_AmountBuckets ==
    (bpc = "built" /\ brow.Amount >= 0) =>
        LET amount == brow.Amount
            range == bdoc.amount_range
        IN  /\ range \in { "low", "medium", "high" }
            /\ (range = "low") <=> (amount < 100 * 100)
            /\ (range = "medium") <=> (amount >= 100 * 100 /\ amount < 500 * 100)
            /\ (range = "high") <=> (amount >= 500 * 100)
            /\ Contains(bdoc.content, "This is a " \o PriceWord(range) \o " item")
            /\ Contains(bdoc.business_content, "This is a " \o range \o "-priced item")

\* a record of exactly 100.00 is medium and mid-range
C17_Witness ==
    /\ bpc = "built"
    /\ brow.Amount = 100 * 100
    /\ bdoc.amount_range = "medium"
    /\ Contains(bdoc.content, "mid-range")

----------------------------------------------------------------------------
(* Properties of setup_index *)

SetupEnded == spc \in { "returned", "raised" }

\* C14: when a step of setup_index failed, setup_index raises or returns
\* False; it never returns True after a step that failed.
C14_SetupFailuresAreFatal ==
    (SetupEnded /\ failedSteps # {}) => setupResult \in { "False", "raised" }

\* C15: the index a second setup_index left is the index the first one
\* left, and each time it holds the documents of the input file and nothing
\* else: one document per row, under the row's id, no id twice.
C15_RebuildIsIdempotent ==
    \A i \in DOMAIN indexAfter :
        /\ indexAfter[i] = indexAfter[1]
        /\ indexAfter[i] = InputDocuments
        /\ Cardinality(indexAfter[i]) = Len(Rows)
        /\ \A d \in indexAfter[i] : \A e \in indexAfter[i] :
              d.id = e.id => d = e

\* a second setup_index left another index than the first
C15_TwiceIsNotOnce ==
    ~ (Len(indexAfter) = 2 /\ indexAfter[2] # indexAfter[1])

\* the index as a setup_index in which no step failed leaves it
C15_WithoutFailedStep ==
    (spc = "returned" /\ setupResult = "True" /\ failedSteps = {}) =>
        index = InputDocuments

----------------------------------------------------------------------------
(* Properties of add_documents *)

\* the positions sent so far, batch after batch
RECURSIVE SentPositions(_)
SentPositions(batches) ==
    IF batches = << >> THEN << >>
    ELSE SentPositions(SubSeq(batches, 1, Len(batches) - 1))
            \o [k \in 1..(batches[Len(batches)][2] - batches[Len(batches)][1] + 1)
                    |-> batches[Len(batches)][1] + k - 1]

\* every document was sent once, in input order, at most 100 to a batch
AllSentInOrder ==
    /\ SentPositions(sent) = [k \in 1..documents |-> k]
    /\ \A b \in DOMAIN sent :
          /\ sent[b][2] - sent[b][1] + 1 <= 100
          /\ sent[b][1] <= sent[b][2]

\* C20: add_documents sends every document once, in order, in batches of at
\* most 100; it polls at most 30 times; it returns only after a poll that
\* reported the engine no longer indexing, or after 30 polls.
C20_UploadWaitsForIndexing ==
    /\ upc \in { "waiting", "returned" } => AllSentInOrder
    /\ polls <= 30
    /\ upc = "returned" => (stats = "False" \/ polls = 30)

\* the part of it about batches and the number of polls
C20_BatchesAndPollBound ==
    /\ upc \in { "waiting", "returned" } => AllSentInOrder
    /\ polls <= 30
    /\ upc = "returned" => (stats \in { "False", NoIsIndexing } \/ polls = 30)

\* add_documents returned while the engine was indexing, before the 30th poll
C20_ReturnedWhileIndexing ==
    ~ (upc = "returned" /\ indexing /\ polls < 30 /\ Len(sent) = 3)

----------------------------------------------------------------------------
(* Properties of the list and the statistics _smart_search returns *)

\* C21: when the caller passed a filter, every hit of the returned list
\* comes from a gateway search that applied this filter, and so satisfies it.
C21_HitsUnderCallerFilter ==
    (Returned /\ ~ raised /\ filters # NoFilter) =>
        \A i \in 1..Len(search_results.hits) :
            FilterSat(search_results.hits[i], filters)

\* a list returned under a caller's filter right after an unfiltered search
\* added a hit to it
C21_UnfilteredHitReturned ==
    ~ /\ pc = "searched"
      /\ ~ raised
      /\ filters # NoFilter
      /\ lastCall.stage = "stage3"
      /\ lastCall.filter = NoFilter
      /\ lastHits > 0
      /\ Len(search_results.hits) > lastCall.held

\* C22: the statistics of the returned structure describe the returned
\* list: estimatedTotalHits is at least the number of hits, and a response
\* with sources reports a total_hits that is at least their number.
C22_StatsCoverHits ==
    /\ Returned =>
          search_results.estimatedTotalHits >= Len(search_results.hits)
    /\ (pc = "done" /\ response.sources # << >>) =>
          response.search_stats.total_hits >= Len(response.sources)

\* stage 2 ran and found a hit: its list took the place of the stage-1 hits
Stage2Replaced ==
    /\ Insufficient(stage1Resp, max_results)
    /\ unique_results(all_category_results, max_results) # << >>

\* the list the fallback stages build on: the stage-2 list when stage 2
\* found a hit, the stage-1 hits otherwise
KeptList ==
    IF Stage2Replaced
    THEN unique_results(all_category_results, max_results)
    ELSE stage1Hits

\* the claim as stated: at least as many hits as stage 1 returned
C23_NoFewerThanStage1 ==
    (Returned /\ ~ raised) => Len(search_results.hits) >= Len(stage1Hits)

\* C23: when no gateway call raises, the returned list begins with the
\* list the fallback stages build on (the stage-2 list when stage 2 found a
\* hit, the stage-1 hits otherwise) and so has at least as many hits as it;
\* it has at least as many hits as stage 1 returned whenever stage 2 found
\* nothing.
C23_NoFewerThanKept ==
    (Returned /\ ~ raised) =>
        /\ Len(search_results.hits) >= Len(KeptList)
        /\ SubSeq(search_results.hits, 1, Len(KeptList)) = KeptList
        /\ ~ Stage2Replaced => Len(search_results.hits) >= Len(stage1Hits)

\* stage 1 returned two hits, stage 2 put its single hit in their place and
\* stage 3 added nothing
C23_Witness ==
    /\ pc = "searched"
    /\ ~ raised
    /\ Len(stage1Hits) = 2
    /\ Stage2Replaced
    /\ Len(search_results.hits) = 1

====
